---- MODULE Spec2Model ----
(***************************************************************************)
(* Model of the partition search and dilution planning of                  *)
(* peptide_pooler.py (function main, lines 103-240).                       *)
(*                                                                         *)
(* The table df is modelled by the ascending sequence conc (the frame      *)
(* after df.sort_values(by="conc")) and one sequence per derived column.   *)
(* Floating point values are modelled by exact rationals with an explicit  *)
(* NaN; positions are 1-based, so the slice df[:k] is the prefix of        *)
(* length SliceLen(k).                                                     *)
(***************************************************************************)
EXTENDS Integers, Sequences, FiniteSets, TLC

\* ------------------------------------------------------------------ bounds
MaxN == 6
MaxConc == 3
MaxMinVolume == 2

\* ------------------------------------------------------------------ inputs
\* Concentrations a record may carry: 1..MaxConc and those of the worked
\* scenario.
ScenarioConcs == <<1, 2, 4, 100>>

ConcValues == (1..MaxConc) \cup { ScenarioConcs[i] : i \in 1..Len(ScenarioConcs) }

MinVolumeValues == 1..MaxMinVolume

MaxUsageValues == {2, 3, 50}

MaxPoolValues == {6, 10, 20}

\* The tier table of the worked scenario and a second table whose medium and
\* high tiers catch non-integral water volumes.
ScenarioFactors ==
    [low    |-> [volume |-> 2,  factor |-> 5],
     medium |-> [volume |-> 10, factor |-> 2],
     high   |-> [volume |-> 30, factor |-> 1]]

WideFactors ==
    [low    |-> [volume |-> 1,  factor |-> 5],
     medium |-> [volume |-> 35, factor |-> 2],
     high   |-> [volume |-> 70, factor |-> 1]]

FactorTables == {ScenarioFactors, WideFactors}

\* Ascending sequences of at most MaxN concentrations (df after sort_values).
SortedConcs ==
    { s \in UNION { [1..k -> ConcValues] : k \in 0..MaxN } :
        \A i \in 1..(Len(s) - 1) : s[i] <= s[i + 1] }

\* ------------------------------------------------------------- arithmetic
RECURSIVE GCD(_, _)
GCD(a, b) == IF b = 0 THEN a ELSE GCD(b, a % b)

Abs(a) == IF a < 0 THEN -a ELSE a

Min(a, b) == IF a <= b THEN a ELSE b

Max(a, b) == IF a >= b THEN a ELSE b

\* A float: NaN, or the rational num/den in lowest terms with den > 0.
NaN == [nan |-> TRUE, num |-> 0, den |-> 1]

Rat(n, d) ==
    LET g == GCD(Abs(n), Abs(d))
        s == IF d < 0 THEN -1 ELSE 1
    IN  [nan |-> FALSE, num |-> s * (n \div g), den |-> s * (d \div g)]

Num(k) == [nan |-> FALSE, num |-> k, den |-> 1]

FMul(x, y) == IF x.nan \/ y.nan THEN NaN ELSE Rat(x.num * y.num, x.den * y.den)

FAdd(x, y) ==
    IF x.nan \/ y.nan THEN NaN
    ELSE Rat(x.num * y.den + y.num * x.den, x.den * y.den)

FSub(x, y) ==
    IF x.nan \/ y.nan THEN NaN
    ELSE Rat(x.num * y.den - y.num * x.den, x.den * y.den)

\* Division; every divisor the program forms is positive or NaN.
FDiv(x, y) == IF x.nan \/ y.nan THEN NaN ELSE Rat(x.num * y.den, x.den * y.num)

\* Comparisons with NaN are False.
FLe(x, y) == IF x.nan \/ y.nan THEN FALSE ELSE x.num * y.den <= y.num * x.den

FLt(x, y) == IF x.nan \/ y.nan THEN FALSE ELSE x.num * y.den < y.num * x.den

\* Rounding to the nearest integer, ties to even, upward variant used to
\* perturb the model.
RoundUp(x) ==
    LET q == x.num \div x.den
        r == x.num % x.den
    IN  IF r = 0 THEN q ELSE q + 1

\* Series.round() and the builtin round(): nearest integer, ties to even.
RoundHalfEven(x) ==
    LET q == x.num \div x.den
        r == x.num % x.den
    IN  IF 2 * r < x.den THEN q
        ELSE IF 2 * r > x.den THEN q + 1
        ELSE IF q % 2 = 0 THEN q ELSE q + 1

\* Series.round(): NaN stays NaN.
SeriesRound(x) == IF x.nan THEN NaN ELSE Num(RoundHalfEven(x))

RECURSIVE SumTo(_, _)
SumTo(s, k) == IF k = 0 THEN 0 ELSE s[k].num + SumTo(s, k - 1)

\* Series.sum() of a series without NaN; 0 for the empty series.
SeriesSum(s) == Num(SumTo(s, Len(s)))

\* Series.max(); NaN for the empty series.
SeriesMax(s) ==
    IF Len(s) = 0 THEN NaN
    ELSE LET i == CHOOSE i \in 1..Len(s) : \A j \in 1..Len(s) : FLe(s[j], s[i])
         IN  s[i]

\* -------------------------------------------------------------- the frame
\* Number of rows of df[:k] for a frame of n rows; a negative k counts from
\* the end.
SliceLen(k, n) == IF k >= 0 THEN Min(k, n) ELSE Max(n + k, 0)

\* half_df['conc'] of df[:k].
HalfConc(c, k) == [i \in 1..SliceLen(k, Len(c)) |-> Num(c[i])]

\* Number of rows of outer_df = df[k:].
OuterCount(c, k) == Len(c) - SliceLen(k, Len(c))

HalfMaxConc(c, k) == SeriesMax(HalfConc(c, k))

HalfAmount(c, k, minv) == FMul(HalfMaxConc(c, k), Num(minv))

DeluteVolumes(c, k, minv) ==
    [i \in 1..SliceLen(k, Len(c)) |->
        SeriesRound(FDiv(HalfAmount(c, k, minv), Num(c[i])))]

InnerVolume(c, k, minv) == SeriesSum(DeluteVolumes(c, k, minv))

OuterVolume(c, k, minv) == Num(OuterCount(c, k) * minv)

\* Perturbation: the pool criterion without the outer group's volume.
CriteriaFittingInnerOnly(c, k, minv, maxpool) ==
    FLe(InnerVolume(c, k, minv), Num(maxpool))

CriteriaFitting(c, k, minv, maxpool) ==
    FLe(FAdd(InnerVolume(c, k, minv), OuterVolume(c, k, minv)), Num(maxpool))

\* Raw water volume of a record of concentration ci against reference h.
RawWater(ci, h, minv) == FDiv(FMul(Num(minv), FSub(Num(ci), h)), h)

\* Perturbation: the usage criterion taken over the outer group's water
\* volumes instead of the inner group's draw volumes.
CriteriaLowestFitsOuterWater(c, k, minv, maxv) ==
    LET h == HalfMaxConc(c, k)
        w == [i \in 1..OuterCount(c, k) |->
                 RawWater(c[SliceLen(k, Len(c)) + i], h, minv)]
    IN  IF h.nan THEN FALSE ELSE FLt(SeriesMax(w), Num(maxv))

CriteriaLowestFits(c, k, minv, maxv) ==
    FLt(SeriesMax(DeluteVolumes(c, k, minv)), Num(maxv))

\* Perturbation: the grow loop gives up one index earlier.
GrowInRangeEarly(hi, len) == hi <= len - 2

\* Line 142: the grow loop may still advance.
GrowInRange(hi, len) == hi <= len - 1

\* Line 167: the shrink loop may still retreat.
ShrinkInRange(hi) == hi >= 0

\* Perturbation: the failure signal is not replaced by 0.
FallbackIndexUnchecked(ls) == ls

\* Lines 197-200.
FallbackIndex(ls) == IF ls # -1 THEN ls ELSE 0

\* ------------------------------------------------------------------ state
VARIABLES
    conc,                   \* df['conc'], ascending
    min_volume,             \* config volumes.min_pipette_volume
    max_volume,             \* config volumes.max_peptide_usage_volume
    max_result_volume,      \* config volumes.max_pool_volume
    delution_factors,       \* config additional.delution_factors
    pc,                     \* position in main
    half_index,
    last_success,
    criteria_fitting,
    criteria_lowest_fits,
    half_max_conc,
    half_amount,
    water_for_delution,     \* the four derived columns
    peptide_for_delution,
    deluted_volume,
    deluted_concentration,
    row_pos,                \* position of the row the tier loop is at
    total_mix_volume

vars == <<conc, min_volume, max_volume, max_result_volume, delution_factors,
          pc, half_index, last_success, criteria_fitting,
          criteria_lowest_fits, half_max_conc, half_amount,
          water_for_delution, peptide_for_delution, deluted_volume,
          deluted_concentration, row_pos, total_mix_volume>>

inputs == <<conc, min_volume, max_volume, max_result_volume, delution_factors>>

columns == <<water_for_delution, peptide_for_delution, deluted_volume,
             deluted_concentration>>

n == Len(conc)

Init ==
    /\ conc \in SortedConcs
    /\ min_volume \in MinVolumeValues
    /\ max_volume \in MaxUsageValues
    /\ max_result_volume \in MaxPoolValues
    /\ delution_factors \in FactorTables
    /\ pc = "start"
    /\ half_index = 0
    /\ last_success = 0
    /\ criteria_fitting = FALSE
    /\ criteria_lowest_fits = FALSE
    /\ half_max_conc = NaN
    /\ half_amount = NaN
    /\ water_for_delution = [i \in 1..Len(conc) |-> Num(0)]
    /\ peptide_for_delution = [i \in 1..Len(conc) |-> Num(0)]
    /\ deluted_volume = [i \in 1..Len(conc) |-> Num(0)]
    /\ deluted_concentration = [i \in 1..Len(conc) |-> Num(0)]
    /\ row_pos = 0
    /\ total_mix_volume = Num(0)

\* The assignments every evaluation of a candidate index k makes.
Evaluate(k) ==
    /\ half_index' = k
    /\ half_max_conc' = HalfMaxConc(conc, k)
    /\ half_amount' = HalfAmount(conc, k, min_volume)
    /\ criteria_fitting' = CriteriaFitting(conc, k, min_volume, max_result_volume)
    /\ criteria_lowest_fits' = CriteriaLowestFits(conc, k, min_volume, max_volume)

\* Lines 109-139: first evaluation at n // 2 and the choice of the branch.
InitialEvaluate ==
    /\ pc = "start"
    /\ Evaluate(n \div 2)
    /\ last_success' = n \div 2
    /\ pc' = IF /\ CriteriaFitting(conc, n \div 2, min_volume, max_result_volume)
                /\ CriteriaLowestFits(conc, n \div 2, min_volume, max_volume)
             THEN "grow" ELSE "shrink"
    /\ UNCHANGED <<inputs, columns, row_pos, total_mix_volume>>

\* Lines 141-158: one iteration of the grow loop.
GrowStep ==
    /\ pc = "grow"
    /\ criteria_fitting /\ criteria_lowest_fits
    /\ GrowInRange(half_index, n)
    /\ last_success' = half_index
    /\ Evaluate(half_index + 1)
    /\ UNCHANGED <<inputs, pc, columns, row_pos, total_mix_volume>>

\* Lines 141-142, 159-162: the grow loop runs out of indices.
GrowExhausted ==
    /\ pc = "grow"
    /\ criteria_fitting /\ criteria_lowest_fits
    /\ ~GrowInRange(half_index, n)
    /\ last_success' = -1
    /\ pc' = "resolve"
    /\ UNCHANGED <<inputs, half_index, criteria_fitting, criteria_lowest_fits,
                   half_max_conc, half_amount, columns, row_pos,
                   total_mix_volume>>

\* Line 141: the grow loop's condition fails.
GrowExit ==
    /\ pc = "grow"
    /\ ~(criteria_fitting /\ criteria_lowest_fits)
    /\ pc' = "resolve"
    /\ UNCHANGED <<inputs, half_index, last_success, criteria_fitting,
                   criteria_lowest_fits, half_max_conc, half_amount, columns,
                   row_pos, total_mix_volume>>

\* Perturbation: the shrink loop retreats two indices at a time.
ShrinkStepByTwo ==
    /\ pc = "shrink"
    /\ ~(criteria_fitting /\ criteria_lowest_fits)
    /\ ShrinkInRange(half_index)
    /\ Evaluate(Max(half_index - 2, -1))
    /\ last_success' = Max(half_index - 2, -1)
    /\ UNCHANGED <<inputs, pc, columns, row_pos, total_mix_volume>>

\* Lines 166-183: one iteration of the shrink loop.
ShrinkStep ==
    /\ pc = "shrink"
    /\ ~(criteria_fitting /\ criteria_lowest_fits)
    /\ ShrinkInRange(half_index)
    /\ Evaluate(half_index - 1)
    /\ last_success' = half_index - 1
    /\ UNCHANGED <<inputs, pc, columns, row_pos, total_mix_volume>>

\* Lines 166-167, 184-187: the shrink loop runs out of indices.
ShrinkExhausted ==
    /\ pc = "shrink"
    /\ ~(criteria_fitting /\ criteria_lowest_fits)
    /\ ~ShrinkInRange(half_index)
    /\ last_success' = -1
    /\ pc' = "resolve"
    /\ UNCHANGED <<inputs, half_index, criteria_fitting, criteria_lowest_fits,
                   half_max_conc, half_amount, columns, row_pos,
                   total_mix_volume>>

\* Line 166: the shrink loop's condition fails.
ShrinkExit ==
    /\ pc = "shrink"
    /\ criteria_fitting /\ criteria_lowest_fits
    /\ pc' = "resolve"
    /\ UNCHANGED <<inputs, half_index, last_success, criteria_fitting,
                   criteria_lowest_fits, half_max_conc, half_amount, columns,
                   row_pos, total_mix_volume>>

\* Value of round(NaN) in the tier loop: the builtin raises ValueError on a
\* Python float; a numpy scalar of an older numpy yields NaN.
RoundNaNOutcomes == {"raise", "nan"}

\* Lines 191-214: the derived columns are reset, the boundary is resolved and
\* the outer group's columns get their raw values.
ResolveBoundary ==
    /\ pc = "resolve"
    /\ LET hi == FallbackIndex(last_success)
           hl == SliceLen(hi, n)
           h  == HalfMaxConc(conc, hi)
           w  == [i \in 1..n |->
                    IF i > hl THEN RawWater(conc[i], h, min_volume) ELSE Num(0)]
       IN  /\ half_index' = hi
           /\ half_max_conc' = h
           /\ half_amount' = HalfAmount(conc, hi, min_volume)
           /\ water_for_delution' = w
           /\ peptide_for_delution' =
                 [i \in 1..n |-> IF i > hl THEN Num(min_volume) ELSE Num(0)]
           /\ deluted_volume' =
                 [i \in 1..n |-> IF i > hl THEN Num(min_volume) ELSE Num(0)]
           /\ deluted_concentration' =
                 [i \in 1..n |->
                    IF i > hl
                    THEN FDiv(FMul(Num(conc[i]), Num(min_volume)),
                              FAdd(Num(min_volume), w[i]))
                    ELSE Num(0)]
           /\ row_pos' = hl + 1
    /\ pc' = "tier"
    /\ UNCHANGED <<inputs, last_success, criteria_fitting,
                   criteria_lowest_fits, total_mix_volume>>

\* The tier the raw water volume w falls in (lines 217, 221, 226, 231).
TierOf(w, f) ==
    IF FLe(w, Num(f.low.volume)) THEN "low"
    ELSE IF FLe(w, Num(f.medium.volume)) THEN "medium"
    ELSE IF FLe(w, Num(f.high.volume)) THEN "high"
    ELSE "above"

\* round(row[col] * factor) of lines 219-220, 223-224, 228-229.
Scaled(x, factor) == Num(RoundHalfEven(FMul(x, Num(factor))))

\* The concentration lines 225 and 230 compute: row is the copy iterrows()
\* made before the loop body ran, so it holds the volumes of lines 211-212.
RowConcentration(i) ==
    FDiv(FMul(Num(conc[i]), peptide_for_delution[i]),
         FAdd(peptide_for_delution[i], water_for_delution[i]))

\* Lines 217-220: a row of the low tier.
TierLow ==
    /\ pc = "tier"
    /\ row_pos <= n
    /\ TierOf(water_for_delution[row_pos], delution_factors) = "low"
    /\ water_for_delution' = [water_for_delution EXCEPT ![row_pos] =
          Scaled(@, delution_factors.low.factor)]
    /\ peptide_for_delution' = [peptide_for_delution EXCEPT ![row_pos] =
          Scaled(@, delution_factors.low.factor)]
    /\ row_pos' = row_pos + 1
    /\ UNCHANGED <<inputs, pc, half_index, last_success, criteria_fitting,
                   criteria_lowest_fits, half_max_conc, half_amount,
                   deluted_volume, deluted_concentration, total_mix_volume>>

\* Lines 221-225: a row of the medium tier.
TierMedium ==
    /\ pc = "tier"
    /\ row_pos <= n
    /\ TierOf(water_for_delution[row_pos], delution_factors) = "medium"
    /\ water_for_delution' = [water_for_delution EXCEPT ![row_pos] =
          Scaled(@, delution_factors.medium.factor)]
    /\ peptide_for_delution' = [peptide_for_delution EXCEPT ![row_pos] =
          Scaled(@, delution_factors.medium.factor)]
    /\ deluted_concentration' = [deluted_concentration EXCEPT ![row_pos] =
          RowConcentration(row_pos)]
    /\ row_pos' = row_pos + 1
    /\ UNCHANGED <<inputs, pc, half_index, last_success, criteria_fitting,
                   criteria_lowest_fits, half_max_conc, half_amount,
                   deluted_volume, total_mix_volume>>

\* Lines 226-230: a row of the high tier.
TierHigh ==
    /\ pc = "tier"
    /\ row_pos <= n
    /\ TierOf(water_for_delution[row_pos], delution_factors) = "high"
    /\ water_for_delution' = [water_for_delution EXCEPT ![row_pos] =
          Scaled(@, delution_factors.high.factor)]
    /\ peptide_for_delution' = [peptide_for_delution EXCEPT ![row_pos] =
          Scaled(@, delution_factors.high.factor)]
    /\ deluted_concentration' = [deluted_concentration EXCEPT ![row_pos] =
          RowConcentration(row_pos)]
    /\ row_pos' = row_pos + 1
    /\ UNCHANGED <<inputs, pc, half_index, last_success, criteria_fitting,
                   criteria_lowest_fits, half_max_conc, half_amount,
                   deluted_volume, total_mix_volume>>

\* Lines 231-234: a row above all tiers whose water volume is a number.
TierAbove ==
    /\ pc = "tier"
    /\ row_pos <= n
    /\ TierOf(water_for_delution[row_pos], delution_factors) = "above"
    /\ ~water_for_delution[row_pos].nan
    /\ water_for_delution' = [water_for_delution EXCEPT ![row_pos] =
          Num(RoundHalfEven(@))]
    /\ peptide_for_delution' = [peptide_for_delution EXCEPT ![row_pos] =
          Num(RoundHalfEven(@))]
    /\ row_pos' = row_pos + 1
    /\ UNCHANGED <<inputs, pc, half_index, last_success, criteria_fitting,
                   criteria_lowest_fits, half_max_conc, half_amount,
                   deluted_volume, deluted_concentration, total_mix_volume>>

\* Lines 231-234 on a NaN water volume (every comparison of lines 217-226
\* is False): round(NaN) raises and main aborts, or yields NaN.
TierAboveNaN ==
    /\ pc = "tier"
    /\ row_pos <= n
    /\ water_for_delution[row_pos].nan
    /\ \E outcome \in RoundNaNOutcomes :
          \/ /\ outcome = "raise"
             /\ pc' = "crashed"
             /\ UNCHANGED <<peptide_for_delution, row_pos>>
          \/ /\ outcome = "nan"
             /\ peptide_for_delution' = [peptide_for_delution EXCEPT
                   ![row_pos] = Num(RoundHalfEven(@))]
             /\ row_pos' = row_pos + 1
             /\ pc' = pc
    /\ UNCHANGED <<inputs, half_index, last_success, criteria_fitting,
                   criteria_lowest_fits, half_max_conc, half_amount,
                   water_for_delution, deluted_volume, deluted_concentration,
                   total_mix_volume>>

\* Lines 236-239: the inner group's columns and the pool volume.
FinishPlan ==
    /\ pc = "tier"
    /\ row_pos > n
    /\ LET hl == SliceLen(half_index, n)
           dv == [i \in 1..n |->
                    IF i <= hl
                    THEN SeriesRound(FDiv(half_amount, Num(conc[i])))
                    ELSE deluted_volume[i]]
       IN  /\ deluted_concentration' =
                 [i \in 1..n |->
                    IF i <= hl THEN Num(conc[i]) ELSE deluted_concentration[i]]
           /\ deluted_volume' = dv
           /\ total_mix_volume' = SeriesSum(dv)
    /\ pc' = "done"
    /\ UNCHANGED <<inputs, half_index, last_success, criteria_fitting,
                   criteria_lowest_fits, half_max_conc, half_amount,
                   water_for_delution, peptide_for_delution, row_pos>>

Next ==
    \/ InitialEvaluate
    \/ GrowStep
    \/ GrowExhausted
    \/ GrowExit
    \/ ShrinkStep
    \/ ShrinkExhausted
    \/ ShrinkExit
    \/ ResolveBoundary
    \/ TierLow
    \/ TierMedium
    \/ TierHigh
    \/ TierAbove
    \/ TierAboveNaN
    \/ FinishPlan

Spec == Init /\ [][Next]_vars

\* ----------------------------------------------------------------- claims
SearchEnded == pc \in {"resolve", "tier", "done", "crashed"}

Resolved == pc \in {"tier", "done", "crashed"}

\* The loop that ran, read off the index the search stopped at: the grow
\* loop leaves half_index above n // 2, the shrink loop below it.
GrowEnded == pc = "resolve" /\ half_index > n \div 2

ShrinkEnded == pc = "resolve" /\ half_index < n \div 2

BothAt(b) ==
    /\ CriteriaFitting(conc, b, min_volume, max_result_volume)
    /\ CriteriaLowestFits(conc, b, min_volume, max_volume)

IsScenario ==
    /\ conc = ScenarioConcs
    /\ min_volume = 2
    /\ max_volume = 50
    /\ max_result_volume = 20

\* C1: the search ends with last_success = -1 or with a boundary in [0, n],
\* and the boundary the planning step works with (half_index after the
\* fallback) is always in [0, n].
C1_BoundaryInRange ==
    /\ SearchEnded => (last_success = -1 \/ (0 <= last_success /\ last_success <= n))
    /\ Resolved => (0 <= half_index /\ half_index <= n)

\* The shrink loop stepped below 0 (it stopped at index -1) on a table of
\* several records and the planning step runs on the fallback boundary.
C1_Witness ==
    /\ pc = "tier"
    /\ n >= 2
    /\ last_success = -1
    /\ ~criteria_fitting
    /\ half_index = 0

\* C2: when the search ends without the failure signal, total_mix_volume is
\* at most max_pool_volume.
C2_PoolVolumeWithinMax ==
    (pc = "done" /\ last_success # -1) =>
        FLe(total_mix_volume, Num(max_result_volume))

\* A finished plan with both groups non-empty that fills the pool exactly.
C2_Witness ==
    /\ pc = "done"
    /\ last_success # -1
    /\ half_index < n
    /\ total_mix_volume = Num(max_result_volume)

\* C3: when the search ends without the failure signal, no draw from a source
\* well exceeds max_peptide_usage_volume: deluted_volume of the inner records
\* and peptide_for_delution of the outer records.
C3_NoDrawExceedsMax ==
    (pc = "done" /\ last_success # -1) =>
        \A i \in 1..n :
            IF i <= half_index
            THEN FLe(deluted_volume[i], Num(max_volume))
            ELSE FLe(peptide_for_delution[i], Num(max_volume))

\* C4: when the search signals failure on n >= 1 records, the boundary falls
\* back to 0, the planning pass finishes and every derived value is a number.
C4_FailureStillCompletes ==
    (Resolved /\ last_success = -1 /\ n >= 1) =>
        /\ half_index = 0
        /\ pc # "crashed"
        /\ pc = "done" =>
              \A i \in 1..n :
                 /\ ~water_for_delution[i].nan
                 /\ ~peptide_for_delution[i].nan
                 /\ ~deluted_volume[i].nan
                 /\ ~deluted_concentration[i].nan

\* The first evaluation of the scenario: the state the branch is chosen in.
ScenarioFirstEvaluation ==
    /\ IsScenario
    /\ pc \in {"grow", "shrink"}
    /\ half_index = 2
    /\ last_success = 2

\* C5 as stated: in the scenario, at the initial boundary 2, criteria_fitting
\* is true, criteria_lowest_fits is false and the shrink loop is entered.
C5_ScenarioEntersShrink ==
    ScenarioFirstEvaluation =>
        /\ criteria_fitting
        /\ ~criteria_lowest_fits
        /\ pc = "shrink"

\* C5 amended: in the scenario, at the initial boundary 2, both criteria are
\* true (the largest inner draw volume is 4 < 50) and the grow loop is
\* entered.
C5_ScenarioEntersGrow ==
    ScenarioFirstEvaluation =>
        /\ criteria_fitting
        /\ criteria_lowest_fits
        /\ half_amount = Num(4)
        /\ pc = "grow"

C5_Witness == ScenarioFirstEvaluation /\ pc = "grow"

\* C6: a single record ends in the inner group, neat: deluted_concentration
\* is its concentration, no water and no peptide for dilution, and the run
\* completes.
C6_SingleRecordNeat ==
    n = 1 =>
        /\ pc # "crashed"
        /\ pc = "done" =>
              /\ half_index = 1
              /\ deluted_concentration[1] = Num(conc[1])
              /\ water_for_delution[1] = Num(0)
              /\ peptide_for_delution[1] = Num(0)

\* C7 as stated: the grow loop never returns n - 1 as a successful boundary.
C7_GrowNeverReturnsLast == GrowEnded => last_success # n - 1

\* C7 amended: the grow loop signals failure exactly when both criteria still
\* hold when b reaches n; it never returns n, and otherwise returns the index
\* before the one the criteria failed at (which may be n - 1).
C7_GrowExhaustsAtN ==
    GrowEnded =>
        /\ last_success = -1 <=>
              (half_index = n /\ criteria_fitting /\ criteria_lowest_fits)
        /\ last_success # n
        /\ last_success # -1 => last_success = half_index - 1

\* The grow loop ran out of indices with both criteria holding at n.
C7_Witness ==
    /\ GrowEnded
    /\ half_index = n
    /\ last_success = -1

\* C8: the shrink loop returns the largest b below n // 2 at which both
\* criteria hold on [0, b) and [b, n); without such a b it signals failure
\* and the boundary falls back to 0.
C8_ShrinkFirstSuccess ==
    /\ ShrinkEnded =>
          LET good == { b \in 0..(n \div 2 - 1) : BothAt(b) }
          IN  IF good = {}
              THEN last_success = -1
              ELSE /\ last_success \in good
                   /\ \A b \in good : b <= last_success
    /\ (Resolved /\ last_success = -1) => half_index = 0

\* The shrink loop retreated more than once and stopped at a boundary at
\* which both criteria hold.
C8_Witness ==
    /\ ShrinkEnded
    /\ last_success >= 1
    /\ last_success <= n \div 2 - 2

\* C9: an outer record whose raw water volume is in the medium or the high
\* tier ends with deluted_concentration = c * P / (P + W) for its final
\* peptide_for_delution P and water_for_delution W.
C9_ConcentrationFromScaledVolumes ==
    pc = "done" =>
        \A i \in 1..n :
            (/\ i > half_index
             /\ TierOf(RawWater(conc[i], half_max_conc, min_volume),
                       delution_factors) \in {"medium", "high"})
            => deluted_concentration[i] =
                  FDiv(FMul(Num(conc[i]), peptide_for_delution[i]),
                       FAdd(peptide_for_delution[i], water_for_delution[i]))

\* Amount an inner record contributes after rounding.
Contribution(i) == FMul(Num(conc[i]), deluted_volume[i])

\* C10 as stated: no inner record contributes more than half_amount.
C10_ContributionAtMostHalfAmount ==
    pc = "done" =>
        \A i \in 1..half_index : FLe(Contribution(i), half_amount)

\* C10 amended: an inner record's contribution differs from half_amount by
\* at most half its concentration.
C10_ContributionWithinHalfConc ==
    pc = "done" =>
        \A i \in 1..half_index :
            LET d == FSub(Contribution(i), half_amount)
            IN  /\ FLe(FMul(Num(2), d), Num(conc[i]))
                /\ FLe(FMul(Num(-2), d), Num(conc[i]))

\* A finished plan with an inner record whose volume was rounded up, so that
\* it contributes more than half_amount.
C10_Witness ==
    /\ pc = "done"
    /\ half_index >= 1
    /\ \E i \in 1..half_index : FLt(half_amount, Contribution(i))

====
